---- MODULE Spec2Model ----
(***************************************************************************)
(* Heartbeat reconciliation of the refocus collector                       *)
(* (src/src/heartbeat/heartbeat.js): sendHeartbeat and buildMockResponse,  *)
(* the promise chain between them, and the generators directory they scan. *)
(***************************************************************************)
EXTENDS Integers, Sequences, FiniteSets, TLC

\* ---------------------------------------------------------------- bounds
NumFiles == 2       \* files the generators directory can hold
MaxTime == 2        \* largest reading of the clock (Date.now())
MaxCalls == 2       \* calls of sendHeartbeat in one behaviour
MaxWrites == 1      \* changes made to the generators directory
MaxInFlight == 2    \* slots for heartbeat cycles whose promise chain is pending

FileNames == 1..NumFiles
Slots == 1..MaxInFlight
GenOrder == <<"g1", "g2">>
GenNames == {GenOrder[i] : i \in 1..Len(GenOrder)}
MetaKeys == {"version", "osInfo"}

\* `let lastHeartbeatTime;` holds undefined until the first assignment.
Undefined == -1
\* null / undefined of a config field.
Null == "null"

VARIABLES
  now,                \* the clock: what Date.now() returns
  files,              \* the generators directory: file name -> its text and mtime
  config,             \* configModule.getConfig(): name, refocus, metadata, generators
  lastHeartbeatTime,  \* the module-level watermark
  cyc,                \* per slot: one call of sendHeartbeat and its promise chain
  thrown,             \* what the latest call of sendHeartbeat threw to its caller
  calls,              \* calls of sendHeartbeat so far
  writes,             \* changes of the directory so far
  unreported,         \* files modified and not yet listed by a completed cycle
  lastQuiet           \* the latest finished cycle succeeded and no file changed since it began

vars == <<now, files, config, lastHeartbeatTime, cyc, thrown, calls, writes,
          unreported, lastQuiet>>

\* ---------------------------------------------------------------- values
NoErr == [type |-> "none", msg |-> "", file |-> 0]
ValidationError(msg, file) == [type |-> "ValidationError", msg |-> msg, file |-> file]
IoError(msg, file) == [type |-> "Error", msg |-> msg, file |-> file]
HandlerError == [type |-> "Error", msg |-> "thrown by handleHeartbeatResponse", file |-> 0]

EmptyMap == [k \in {} |-> 0]
Range(s) == {s[i] : i \in 1..Len(s)}

\* A file of the directory: the class of its text, the name its text gives the
\* generator, and its modification time.
Absent == [kind |-> "absent", name |-> "", mtime |-> 0]
InvalidKinds == {"badjson", "null", "scalar", "array", "noname"}
Texts == [kind : {"valid"}, name : GenNames] \cup [kind : InvalidKinds, name : {""}]

\* A JavaScript value as the scan sees it.
JsUndefined == [t |-> "undefined", name |-> "", src |-> 0]
Generator(name, src) == [t |-> "object", name |-> name, src |-> src]

\* What a pending stat / readFile holds before it completes.
PendingStat == -1
PendingRead == [kind |-> "pending", name |-> "", src |-> 0]

IdleCycle ==
  [pc |-> "idle", t0 |-> 0, current |-> EmptyMap, changed |-> EmptyMap,
   filenames |-> <<>>,
   stats |-> <<>>, reads |-> <<>>, stale |-> {}, res |-> <<>>, err |-> NoErr,
   handled |-> <<>>, logged |-> {}, wmSeen |-> Undefined,
   sawChange |-> FALSE, prevQuiet |-> FALSE, storeSeen |-> EmptyMap]

\* ------------------------------------------------------- pure functions

\* JSON.parse(fileContents) inside try/catch: a text that does not parse throws,
\* the catch logs, and newGenerator stays undefined.
JsonParse(fileContents) ==
  CASE fileContents.kind = "badjson" -> [threw |-> TRUE, value |-> JsUndefined]
    [] fileContents.kind = "valid" ->
         [threw |-> FALSE, value |-> Generator(fileContents.name, fileContents.src)]
    [] fileContents.kind = "noname" ->
         [threw |-> FALSE, value |-> Generator("", fileContents.src)]
    [] OTHER ->
         [threw |-> FALSE,
          value |-> [t |-> fileContents.kind, name |-> "", src |-> fileContents.src]]

\* JavaScript truthiness and typeof of a parsed value.
Truthy(v) == v.t \notin {"undefined", "null"}
TypeOf(v) ==
  CASE v.t \in {"object", "array", "null"} -> "object"
    [] v.t = "undefined" -> "undefined"
    [] OTHER -> "number"

\* Mutant: the validation without its array test.
IsInvalidGenerator_NoArrayCheck(newGenerator) ==
  \/ newGenerator.t \in {"undefined", "null"}
  \/ newGenerator.t \notin {"object", "array", "null"}
  \/ newGenerator.name = "" /\ newGenerator.t # "array"

\* !newGenerator || !isObject || isArray || !newGenerator.name
IsInvalidGenerator(newGenerator) ==
  \/ ~Truthy(newGenerator)
  \/ TypeOf(newGenerator) # "object"
  \/ newGenerator.t = "array"
  \/ newGenerator.name = ""

\* Mutant: the threshold test turned around.
MtimeReached_Reversed(lastModifiedTime, watermark) ==
  watermark # Undefined /\ lastModifiedTime <= watermark

\* Mutant: the threshold test made strict.
MtimeReached_Strict(lastModifiedTime, watermark) ==
  watermark # Undefined /\ lastModifiedTime > watermark

\* lastModifiedTime >= lastHeartbeatTime: a comparison with undefined is false.
MtimeReached(lastModifiedTime, watermark) ==
  watermark # Undefined /\ lastModifiedTime >= watermark

\* parsedGenerators[name] = newGenerator
Put(map, key, value) ==
  [k \in DOMAIN map \cup {key} |-> IF k = key THEN value ELSE map[k]]

NoScan ==
  [parsed |-> EmptyMap, added |-> <<>>, updated |-> <<>>, logged |-> {},
   reported |-> {}, err |-> NoErr]

\* Mutant: a file whose text does not parse is logged and skipped.
ScanFile_SkipUnparsed(acc, filename, lastModifiedTime, fileContents, generators, watermark) ==
  IF fileContents.kind = "badjson"
  THEN [acc EXCEPT !.logged = acc.logged \cup {filename}]
  ELSE IF fileContents.kind # "valid"
  THEN [acc EXCEPT !.err = ValidationError("Invalid Generator in", filename)]
  ELSE LET g == Generator(fileContents.name, fileContents.src)
           withParsed == [acc EXCEPT !.parsed = Put(acc.parsed, g.name, g)]
       IN IF g.name \notin DOMAIN generators
          THEN [withParsed EXCEPT !.added = Append(acc.added, g),
                                  !.reported = acc.reported \cup {filename}]
          ELSE IF watermark # Undefined /\ lastModifiedTime >= watermark
          THEN [withParsed EXCEPT !.updated = Append(acc.updated, g),
                                  !.reported = acc.reported \cup {filename}]
          ELSE withParsed

\* One pass of filenames.forEach: log a parse failure, validate, record, classify.
ScanFile(acc, filename, lastModifiedTime, fileContents, generators, watermark) ==
  LET parsedFile == JsonParse(fileContents)
      newGenerator == parsedFile.value
      logged == IF parsedFile.threw THEN acc.logged \cup {filename} ELSE acc.logged
  IN IF IsInvalidGenerator(newGenerator)
     THEN [acc EXCEPT !.logged = logged,
                      !.err = ValidationError("Invalid Generator in", filename)]
     ELSE LET withParsed ==
                [acc EXCEPT !.logged = logged,
                            !.parsed = Put(acc.parsed, newGenerator.name, newGenerator)]
          IN IF newGenerator.name \notin DOMAIN generators
             THEN [withParsed EXCEPT !.added = Append(acc.added, newGenerator),
                                     !.reported = acc.reported \cup {filename}]
             ELSE IF MtimeReached(lastModifiedTime, watermark)
             THEN [withParsed EXCEPT !.updated = Append(acc.updated, newGenerator),
                                     !.reported = acc.reported \cup {filename}]
             ELSE withParsed

\* filenames.forEach over the listing, shifting statsList and fileList in step;
\* a throw ends the loop.
RECURSIVE ScanFiles(_, _, _, _, _, _)
ScanFiles(acc, filenames, statsList, fileList, generators, watermark) ==
  IF filenames = <<>> \/ acc.err # NoErr
  THEN acc
  ELSE ScanFiles(ScanFile(acc, Head(filenames), Head(statsList), Head(fileList),
                          generators, watermark),
                 Tail(filenames), Tail(statsList), Tail(fileList), generators, watermark)

\* Mutant: the deleted list rebuilt from the names instead of taken from the store.
DeletedGenerators_Rebuilt(generators, parsedGenerators) ==
  LET names == SelectSeq(GenOrder, LAMBDA n : n \in DOMAIN generators
                                             /\ n \notin DOMAIN parsedGenerators)
  IN [i \in 1..Len(names) |-> Generator(names[i], 0)]

\* Object.keys(config.generators).forEach: the store's records whose name the
\* scan did not produce.
DeletedGenerators(generators, parsedGenerators) ==
  LET names == SelectSeq(GenOrder, LAMBDA n : n \in DOMAIN generators
                                             /\ n \notin DOMAIN parsedGenerators)
  IN [i \in 1..Len(names) |-> generators[names[i]]]

\* The response object of buildMockResponse; its refocus is the empty object.
MockResponse(scan, generators) ==
  [refocus |-> EmptyMap,
   generatorsAdded |-> scan.added,
   generatorsDeleted |-> DeletedGenerators(generators, scan.parsed),
   generatorsUpdated |-> scan.updated]

\* u.getChangedMetadata(existing, current): the keys of current whose value is
\* new or differs.
GetChangedMetadata(existing, current) ==
  LET keys == {k \in DOMAIN current : k \notin DOMAIN existing \/ existing[k] # current[k]}
  IN [k \in keys |-> current[k]]

\* Mutant: a merge in which the previous value of a field wins.
ObjectAssign_KeepExisting(existing, current) ==
  [k \in DOMAIN existing \cup DOMAIN current |->
     IF k \in DOMAIN existing THEN existing[k] ELSE current[k]]

\* Object.assign(existing, current)
ObjectAssign(existing, current) ==
  [k \in DOMAIN existing \cup DOMAIN current |->
     IF k \in DOMAIN current THEN current[k] ELSE existing[k]]

\* Mutant: the validation without its token test.
ConfigError_NoTokenCheck(cfg) ==
  IF cfg.name = Null THEN ValidationError("No collectorName in config", 0)
  ELSE IF cfg.refocus.url = Null THEN ValidationError("No refocusUrl in config", 0)
  ELSE NoErr

\* The first missing field, in the order the code tests them.
ConfigError(cfg) ==
  IF cfg.name = Null THEN ValidationError("No collectorName in config", 0)
  ELSE IF cfg.refocus.url = Null THEN ValidationError("No refocusUrl in config", 0)
  ELSE IF cfg.refocus.collectorToken = Null
  THEN ValidationError("No collectorToken in config", 0)
  ELSE NoErr

\* handleHeartbeatResponse(null, res) bringing the store in line with the
\* response: deleted names leave, added and updated records enter.
ApplyResponse(generators, res) ==
  LET gone == {g.name : g \in Range(res.generatorsDeleted)}
      news == res.generatorsAdded \o res.generatorsUpdated
      last(n) == CHOOSE i \in 1..Len(news) :
                   /\ news[i].name = n
                   /\ \A j \in 1..Len(news) : news[j].name = n => j <= i
      keep == (DOMAIN generators \ gone) \cup {g.name : g \in Range(news)}
  IN [n \in keep |-> IF \E g \in Range(news) : g.name = n
                     THEN news[last(n)] ELSE generators[n]]

\* The listing readdir gives of a set of files: each name once, in name order.
Listing(present) ==
  SelectSeq([i \in 1..NumFiles |-> i], LAMBDA f : f \in present)

Present == {f \in FileNames : files[f] # Absent}
InFlight(s) == cyc[s].pc \in {"readdir", "io", "resolved", "rejected"}
Scanning(s) == cyc[s].pc \in {"readdir", "io"}
\* A cycle is running or can still be started: the clock and the directory
\* matter only to those.
Observed == calls < MaxCalls \/ \E s \in Slots : Scanning(s)

\* ----------------------------------------------------------------- Init
\* Each file is absent or holds a valid generator written at time 0.
InitialFiles ==
  [FileNames -> {Absent}] \cup
  {[f \in FileNames |->
      IF f \in there
      THEN [kind |-> "valid", name |-> GenOrder[((f - 1) % Len(GenOrder)) + 1], mtime |-> 0]
      ELSE Absent] : there \in SUBSET FileNames}

InitialStores ==
  {[n \in names |-> Generator(n, 0)] : names \in SUBSET GenNames}

\* Every store with a complete config; every choice of missing fields with the
\* full store.
InitialConfigs ==
  {c \in {[name |-> n, refocus |-> [url |-> u, collectorToken |-> t],
           metadata |-> EmptyMap, generators |-> g] :
             n \in {"collector1", Null}, u \in {"http://refocus", Null},
             t \in {"token", Null}, g \in InitialStores} :
     Null \in {c.name, c.refocus.url, c.refocus.collectorToken}
       => DOMAIN c.generators = GenNames}

Init ==
  /\ now = 0
  /\ files \in InitialFiles
  /\ config \in InitialConfigs
  /\ lastHeartbeatTime = Undefined
  /\ cyc = [s \in Slots |-> IdleCycle]
  /\ thrown = NoErr
  /\ calls = 0
  /\ writes = 0
  /\ unreported = {}
  /\ lastQuiet = FALSE

\* ------------------------------------------------------ the environment

\* The clock advances.
Tick ==
  /\ Observed
  /\ now < MaxTime
  /\ now' = now + 1
  /\ UNCHANGED <<files, config, lastHeartbeatTime, cyc, thrown, calls, writes,
                 unreported, lastQuiet>>

\* What a change of file f means to the cycles in flight: a scanning cycle has
\* seen the directory change, and a read of f it already holds is out of date.
AfterChange(f) ==
  [s \in Slots |->
     IF Scanning(s)
     THEN [cyc[s] EXCEPT !.sawChange = TRUE,
             !.stale = IF \E i \in 1..Len(cyc[s].filenames) :
                             cyc[s].filenames[i] = f /\ cyc[s].reads[i] # PendingRead
                        THEN cyc[s].stale \cup {f} ELSE cyc[s].stale]
     ELSE cyc[s]]

\* Someone writes file f: its text changes and its mtime becomes the clock's.
WriteFile(f, text) ==
  /\ Observed
  /\ writes < MaxWrites
  /\ writes' = writes + 1
  /\ files' = [files EXCEPT ![f] = [kind |-> text.kind, name |-> text.name, mtime |-> now]]
  /\ unreported' = IF text.kind = "valid" THEN unreported \cup {f} ELSE unreported \ {f}
  /\ cyc' = AfterChange(f)
  /\ lastQuiet' = FALSE
  /\ UNCHANGED <<now, config, lastHeartbeatTime, thrown, calls>>

\* Someone removes file f.
DeleteFile(f) ==
  /\ Observed
  /\ writes < MaxWrites
  /\ files[f] # Absent
  /\ writes' = writes + 1
  /\ files' = [files EXCEPT ![f] = Absent]
  /\ unreported' = unreported \ {f}
  /\ cyc' = AfterChange(f)
  /\ lastQuiet' = FALSE
  /\ UNCHANGED <<now, config, lastHeartbeatTime, thrown, calls>>

\* ------------------------------------------------------ sendHeartbeat

\* Mutant: the metadata merged before the delta is computed.
SendHeartbeat_MergeFirst(s, current) ==
  /\ calls < MaxCalls
  /\ ~InFlight(s)
  /\ \A r \in Slots : r < s => InFlight(r)
  /\ calls' = calls + 1
  /\ thrown' = ConfigError(config)
  /\ IF ConfigError(config) # NoErr
     THEN UNCHANGED <<config, cyc>>
     ELSE /\ config' = [config EXCEPT !.metadata = ObjectAssign(config.metadata, current)]
          /\ cyc' = [cyc EXCEPT ![s] =
               [IdleCycle EXCEPT
                  !.pc = "readdir",
                  !.t0 = now,
                  !.current = current,
                  !.changed = GetChangedMetadata(ObjectAssign(config.metadata, current), current),
                  !.prevQuiet = lastQuiet /\ \A r \in Slots : ~InFlight(r)]]
  /\ UNCHANGED <<now, files, lastHeartbeatTime, writes, unreported, lastQuiet>>

\* Mutant: the metadata merged before the config is validated.
SendHeartbeat_MergeBeforeValidation(s, current) ==
  /\ calls < MaxCalls
  /\ ~InFlight(s)
  /\ \A r \in Slots : r < s => InFlight(r)
  /\ calls' = calls + 1
  /\ thrown' = ConfigError(config)
  /\ config' = [config EXCEPT !.metadata = ObjectAssign(config.metadata, current)]
  /\ IF ConfigError(config) # NoErr
     THEN UNCHANGED cyc
     ELSE /\ cyc' = [cyc EXCEPT ![s] =
               [IdleCycle EXCEPT
                  !.pc = "readdir",
                  !.t0 = now,
                  !.current = current,
                  !.changed = GetChangedMetadata(config.metadata, current),
                  !.prevQuiet = lastQuiet /\ \A r \in Slots : ~InFlight(r)]]
  /\ UNCHANGED <<now, files, lastHeartbeatTime, writes, unreported, lastQuiet>>

\* sendHeartbeat(): take the timestamp, validate the config, diff and merge the
\* metadata, and start buildMockResponse, whose first act is readdirAsync. A
\* missing field throws to the caller before any of that.
SendHeartbeat(s, current) ==
  /\ calls < MaxCalls
  /\ ~InFlight(s)
  /\ \A r \in Slots : r < s => InFlight(r)
  /\ calls' = calls + 1
  /\ thrown' = ConfigError(config)
  /\ IF ConfigError(config) # NoErr
     THEN UNCHANGED <<config, cyc>>
     ELSE /\ config' = [config EXCEPT !.metadata = ObjectAssign(config.metadata, current)]
          /\ cyc' = [cyc EXCEPT ![s] =
               [IdleCycle EXCEPT
                  !.pc = "readdir",
                  !.t0 = now,
                  !.current = current,
                  !.changed = GetChangedMetadata(config.metadata, current),
                  !.prevQuiet = lastQuiet /\ \A r \in Slots : ~InFlight(r)]]
  /\ UNCHANGED <<now, files, lastHeartbeatTime, writes, unreported, lastQuiet>>

\* Mutant: a rejection of the promise that still assigns the watermark.
Reject_SetsWatermark(s, err, logged) ==
  /\ cyc' = [cyc EXCEPT ![s].pc = "rejected", ![s].err = err, ![s].logged = logged]
  /\ lastQuiet' = FALSE
  /\ lastHeartbeatTime' = now
  /\ UNCHANGED <<now, files, config, thrown, calls, writes, unreported>>

\* The promise of buildMockResponse rejects with err: nothing is returned and
\* the watermark is not assigned.
Reject(s, err, logged) ==
  /\ cyc' = [cyc EXCEPT ![s].pc = "rejected", ![s].err = err, ![s].logged = logged]
  /\ lastQuiet' = FALSE
  /\ UNCHANGED <<now, files, config, lastHeartbeatTime, thrown, calls, writes, unreported>>

\* readdirAsync resolves: one statAsync and one readFileAsync start per name.
ReaddirDone(s) ==
  /\ cyc[s].pc = "readdir"
  /\ LET filenames == Listing(Present)
     IN cyc' = [cyc EXCEPT ![s].pc = "io",
                           ![s].filenames = filenames,
                           ![s].stats = [i \in 1..Len(filenames) |-> PendingStat],
                           ![s].reads = [i \in 1..Len(filenames) |-> PendingRead]]
  /\ UNCHANGED <<now, files, config, lastHeartbeatTime, thrown, calls, writes,
                 unreported, lastQuiet>>

\* readdirAsync rejects (the directory cannot be listed).
ReaddirFail(s) ==
  /\ cyc[s].pc = "readdir"
  /\ Reject(s, IoError("readdir", 0), {})

\* Mutant: the results of the stats collected in the order of completion.
StatDone_CompletionOrder(s, i) ==
  /\ cyc[s].pc = "io"
  /\ i \in 1..Len(cyc[s].filenames)
  /\ \E j \in 1..Len(cyc[s].filenames) :
       /\ cyc[s].stats[j] = PendingStat
       /\ \A k \in 1..(j - 1) : cyc[s].stats[k] # PendingStat
       /\ \E k \in j..Len(cyc[s].filenames) : k = i
       /\ LET f == cyc[s].filenames[i]
          IN IF files[f] = Absent
             THEN Reject(s, IoError("stat", f), {})
             ELSE /\ cyc' = [cyc EXCEPT ![s].stats[j] = files[f].mtime]
                  /\ UNCHANGED <<now, files, config, lastHeartbeatTime, thrown, calls,
                                 writes, unreported, lastQuiet>>

\* One statAsync completes with the file's mtime as it is now; a file that is
\* gone rejects Promise.all and with it the whole chain.
StatDone(s, i) ==
  /\ cyc[s].pc = "io"
  /\ i \in 1..Len(cyc[s].filenames)
  /\ cyc[s].stats[i] = PendingStat
  /\ LET f == cyc[s].filenames[i]
     IN IF files[f] = Absent
        THEN Reject(s, IoError("stat", f), {})
        ELSE /\ cyc' = [cyc EXCEPT ![s].stats[i] = files[f].mtime]
             /\ UNCHANGED <<now, files, config, lastHeartbeatTime, thrown, calls,
                            writes, unreported, lastQuiet>>

\* One readFileAsync completes with the file's text as it is now.
ReadDone(s, i) ==
  /\ cyc[s].pc = "io"
  /\ i \in 1..Len(cyc[s].filenames)
  /\ cyc[s].reads[i] = PendingRead
  /\ LET f == cyc[s].filenames[i]
     IN IF files[f] = Absent
        THEN Reject(s, IoError("readFile", f), {})
        ELSE /\ cyc' = [cyc EXCEPT
                         ![s].reads[i] = [kind |-> files[f].kind, name |-> files[f].name,
                                          src |-> f],
                         ![s].stale = cyc[s].stale \ {f}]
             /\ UNCHANGED <<now, files, config, lastHeartbeatTime, thrown, calls,
                            writes, unreported, lastQuiet>>

\* Mutant: the callback writes the scanned generators into the store itself.
JoinCallback_WritesStore(s) ==
  LET c == cyc[s]
      scan == ScanFiles(NoScan, c.filenames, c.stats, c.reads, config.generators,
                        lastHeartbeatTime)
  IN /\ c.pc = "io"
     /\ \A i \in 1..Len(c.filenames) : c.stats[i] # PendingStat /\ c.reads[i] # PendingRead
     /\ IF scan.err # NoErr
        THEN Reject(s, scan.err, scan.logged)
        ELSE /\ lastHeartbeatTime' = now
             /\ cyc' = [cyc EXCEPT
                   ![s].pc = "resolved",
                   ![s].res = <<MockResponse(scan, config.generators)>>,
                   ![s].logged = scan.logged,
                   ![s].wmSeen = lastHeartbeatTime,
                   ![s].storeSeen = config.generators]
             /\ unreported' = unreported \ (scan.reported \ c.stale)
             /\ lastQuiet' = ~c.sawChange
             /\ config' = [config EXCEPT !.generators = scan.parsed]
             /\ UNCHANGED <<now, files, thrown, calls, writes>>

\* Mutant: the three lists kept at module level, shared by the cycles in flight.
JoinCallback_SharedLists(s) ==
  LET c == cyc[s]
      scan == ScanFiles(NoScan, c.filenames, c.stats, c.reads, config.generators,
                        lastHeartbeatTime)
      own == MockResponse(scan, config.generators)
      others == SelectSeq([r \in 1..MaxInFlight |-> r],
                          LAMBDA r : r # s /\ cyc[r].pc = "resolved")
      shared == IF others = <<>> THEN own
                ELSE [own EXCEPT
                        !.generatorsAdded = cyc[others[1]].res[1].generatorsAdded \o @,
                        !.generatorsUpdated = cyc[others[1]].res[1].generatorsUpdated \o @,
                        !.generatorsDeleted = cyc[others[1]].res[1].generatorsDeleted \o @]
  IN /\ c.pc = "io"
     /\ \A i \in 1..Len(c.filenames) : c.stats[i] # PendingStat /\ c.reads[i] # PendingRead
     /\ IF scan.err # NoErr
        THEN Reject(s, scan.err, scan.logged)
        ELSE /\ lastHeartbeatTime' = now
             /\ cyc' = [cyc EXCEPT
                   ![s].pc = "resolved",
                   ![s].res = <<shared>>,
                   ![s].logged = scan.logged,
                   ![s].wmSeen = lastHeartbeatTime,
                   ![s].storeSeen = config.generators]
             /\ unreported' = unreported \ (scan.reported \ c.stale)
             /\ lastQuiet' = ~c.sawChange
             /\ UNCHANGED <<now, files, config, thrown, calls, writes>>

\* The callback of Promise.join, once every stat and read has completed: scan
\* and classify the files, collect the deleted generators, assign the watermark
\* and resolve with the response; an invalid generator throws instead.
JoinCallback(s) ==
  LET c == cyc[s]
      scan == ScanFiles(NoScan, c.filenames, c.stats, c.reads, config.generators,
                        lastHeartbeatTime)
  IN /\ c.pc = "io"
     /\ \A i \in 1..Len(c.filenames) : c.stats[i] # PendingStat /\ c.reads[i] # PendingRead
     /\ IF scan.err # NoErr
        THEN Reject(s, scan.err, scan.logged)
        ELSE /\ lastHeartbeatTime' = now
             /\ cyc' = [cyc EXCEPT
                   ![s].pc = "resolved",
                   ![s].res = <<MockResponse(scan, config.generators)>>,
                   ![s].logged = scan.logged,
                   ![s].wmSeen = lastHeartbeatTime,
                   ![s].storeSeen = config.generators]
             /\ unreported' = unreported \ (scan.reported \ c.stale)
             /\ lastQuiet' = ~c.sawChange
             /\ UNCHANGED <<now, files, config, thrown, calls, writes>>

\* .then(res => handleHeartbeatResponse(null, res)): the handler returns, with
\* or without bringing the store in line, or throws, which rejects the promise
\* that .catch hangs on.
ThenHandler(s, outcome) ==
  /\ cyc[s].pc = "resolved"
  /\ cyc' = [cyc EXCEPT
        ![s].handled = Append(cyc[s].handled, [err |-> NoErr, res |-> cyc[s].res]),
        ![s].pc = IF outcome = "throw" THEN "rejected" ELSE "done",
        ![s].err = IF outcome = "throw" THEN HandlerError ELSE NoErr]
  /\ config' = IF outcome = "apply"
               THEN [config EXCEPT !.generators = ApplyResponse(config.generators,
                                                                 cyc[s].res[1])]
               ELSE config
  /\ lastQuiet' = (lastQuiet /\ outcome # "throw")
  /\ UNCHANGED <<now, files, lastHeartbeatTime, thrown, calls, writes, unreported>>

\* Mutant: the rejection is swallowed without a call of the handler.
CatchHandler_Swallow(s) ==
  /\ cyc[s].pc = "rejected"
  /\ cyc' = [cyc EXCEPT ![s].pc = "done"]
  /\ UNCHANGED <<now, files, config, lastHeartbeatTime, thrown, calls, writes,
                 unreported, lastQuiet>>

\* .catch(err => handleHeartbeatResponse(err, null))
CatchHandler(s) ==
  /\ cyc[s].pc = "rejected"
  /\ cyc' = [cyc EXCEPT
        ![s].handled = Append(cyc[s].handled, [err |-> cyc[s].err, res |-> <<>>]),
        ![s].pc = "done"]
  /\ UNCHANGED <<now, files, config, lastHeartbeatTime, thrown, calls, writes,
                 unreported, lastQuiet>>

\* ------------------------------------------------------------ the system
CurrentMetadata == {[k \in MetaKeys |-> 1]}
\* The scheduler starts a cycle only when the one before has finished.
Serial == \A r \in Slots : ~InFlight(r)
ScheduledHeartbeat(s, current) == Serial /\ SendHeartbeat(s, current)
HandlerOutcomes == {"return", "apply", "throw"}

Next ==
  \/ Tick
  \/ \E f \in FileNames, text \in Texts : WriteFile(f, text)
  \/ \E f \in FileNames : DeleteFile(f)
  \/ \E s \in Slots, current \in CurrentMetadata : ScheduledHeartbeat(s, current)
  \/ \E s \in Slots : ReaddirDone(s)
  \/ \E s \in Slots : ReaddirFail(s)
  \/ \E s \in Slots, i \in FileNames : StatDone(s, i)
  \/ \E s \in Slots, i \in FileNames : ReadDone(s, i)
  \/ \E s \in Slots : JoinCallback(s)
  \/ \E s \in Slots, outcome \in HandlerOutcomes : ThenHandler(s, outcome)
  \/ \E s \in Slots : CatchHandler(s)

Spec == Init /\ [][Next]_vars

\* One step of the promise chain of slot s.
CycleStep(s) ==
  \/ ReaddirDone(s)
  \/ ReaddirFail(s)
  \/ \E i \in FileNames : StatDone(s, i)
  \/ \E i \in FileNames : ReadDone(s, i)
  \/ JoinCallback(s)
  \/ \E outcome \in HandlerOutcomes : ThenHandler(s, outcome)
  \/ CatchHandler(s)

\* Every readdir, stat and read that was started settles, and a callback whose
\* promise has settled runs: a chain that can take a step is not left waiting
\* for ever.
Fairness == \A s \in Slots : WF_vars(CycleStep(s))

\* The cycles of Spec over a directory that loses files, with the clock left
\* out: whether a cycle ends does not depend on what the clock reads.
NextFair ==
  \/ \E f \in FileNames : DeleteFile(f)
  \/ \E s \in Slots, current \in CurrentMetadata : ScheduledHeartbeat(s, current)
  \/ \E s \in Slots : CycleStep(s)

SpecFair == Init /\ [][NextFair]_vars /\ Fairness

\* Calls of sendHeartbeat that do not wait for the cycle before: cycles overlap,
\* over a directory in which files are written.
NextOverlap ==
  \/ \E f \in FileNames, text \in Texts : WriteFile(f, text)
  \/ \E s \in Slots, current \in CurrentMetadata : SendHeartbeat(s, current)
  \/ \E s \in Slots : CycleStep(s)

SpecOverlap == Init /\ [][NextOverlap]_vars

\* ------------------------------------- metadata and config that change
\* The values a metadata field takes.
MetaVals == {1, 2}
\* What u.getCurrentMetadata() can return from one call to the next: any of the
\* fields, each with any value.
MetadataSnapshots == UNION {[D -> MetaVals] : D \in SUBSET MetaKeys}

ConfigFields == {"name", "url", "collectorToken"}
\* Between two calls a field of the config object is lost.
ClearConfigField(field) ==
  /\ Observed
  /\ Serial
  /\ ConfigError(config) = NoErr
  /\ config' = CASE field = "name" -> [config EXCEPT !.name = Null]
                  [] field = "url" -> [config EXCEPT !.refocus.url = Null]
                  [] OTHER -> [config EXCEPT !.refocus.collectorToken = Null]
  /\ UNCHANGED <<now, files, lastHeartbeatTime, cyc, thrown, calls, writes,
                 unreported, lastQuiet>>

\* The cycles of Spec, one after the other, with metadata that changes between
\* them and a config that can lose a field.
NextMeta ==
  \/ \E field \in ConfigFields : ClearConfigField(field)
  \/ \E f \in FileNames : WriteFile(f, [kind |-> "badjson", name |-> ""])
  \/ \E s \in Slots, current \in MetadataSnapshots : ScheduledHeartbeat(s, current)
  \/ \E s \in Slots : ReaddirDone(s)
  \/ \E s \in Slots : ReaddirFail(s)
  \/ \E s \in Slots, i \in FileNames : StatDone(s, i)
  \/ \E s \in Slots, i \in FileNames : ReadDone(s, i)
  \/ \E s \in Slots : JoinCallback(s)
  \/ \E s \in Slots, outcome \in HandlerOutcomes : ThenHandler(s, outcome)
  \/ \E s \in Slots : CatchHandler(s)

SpecMeta == Init /\ [][NextMeta]_vars

\* ------------------------------------------------------------ the claims
NamesOf(list) == {list[i].name : i \in 1..Len(list)}
Scanned(c) == {c.reads[i].name : i \in 1..Len(c.filenames)}
DistinctNames(c) ==
  \A i, j \in 1..Len(c.filenames) : c.reads[i].name = c.reads[j].name => i = j
AllDone(c) ==
  \A i \in 1..Len(c.filenames) : c.stats[i] # PendingStat /\ c.reads[i] # PendingRead
\* The step in which the callback of Promise.join runs for slot s.
JoinStep(s) == cyc[s].pc = "io" /\ AllDone(cyc[s]) /\ cyc'[s].pc # "io"

\* C1: in a cycle whose files are all valid with distinct names, generatorsAdded
\* holds exactly the scanned names absent from the store, generatorsUpdated
\* exactly the scanned names in the store whose mtime is >= the watermark the
\* previous cycle left (none while no cycle has left one), generatorsDeleted
\* exactly the store names absent from the scan, and no name is listed twice.
C1_Classification ==
  \A s \in Slots :
    LET c == cyc[s] IN
    (c.pc = "resolved" /\ DistinctNames(c)) =>
      LET res == c.res[1]
          store == DOMAIN c.storeSeen
          reached == {i \in 1..Len(c.filenames) :
                        c.wmSeen # Undefined /\ c.stats[i] >= c.wmSeen}
      IN /\ NamesOf(res.generatorsAdded) = Scanned(c) \ store
         /\ NamesOf(res.generatorsUpdated) =
              {c.reads[i].name : i \in {j \in reached : c.reads[j].name \in store}}
         /\ NamesOf(res.generatorsDeleted) = store \ Scanned(c)
         /\ Len(res.generatorsAdded) + Len(res.generatorsUpdated)
              + Len(res.generatorsDeleted)
              = Cardinality(NamesOf(res.generatorsAdded) \cup NamesOf(res.generatorsUpdated)
                            \cup NamesOf(res.generatorsDeleted))

\* C1 witness: a cycle after the first lists one generator as updated and
\* another as added.
C1_Witness ==
  \E s \in Slots :
    /\ cyc[s].pc = "resolved"
    /\ Len(cyc[s].res[1].generatorsUpdated) = 1
    /\ Len(cyc[s].res[1].generatorsAdded) = 1
    /\ cyc[s].wmSeen # Undefined

\* The second of two cycles in succession: the one before completed with no
\* file changing since it began, none changed during this one, and the store
\* this one classified against held exactly the scanned names.
SecondQuietCycle(c) ==
  /\ c.pc = "resolved"
  /\ c.prevQuiet
  /\ ~c.sawChange
  /\ DOMAIN c.storeSeen = Scanned(c)

\* C2 as stated: the second of two quiet cycles over a consistent store yields
\* empty generatorsAdded, generatorsUpdated and generatorsDeleted.
C2_SecondCycleEmpty ==
  \A s \in Slots :
    SecondQuietCycle(cyc[s]) =>
      /\ cyc[s].res[1].generatorsAdded = <<>>
      /\ cyc[s].res[1].generatorsUpdated = <<>>
      /\ cyc[s].res[1].generatorsDeleted = <<>>

\* C2 amended: the second of two quiet cycles over a consistent store yields
\* empty generatorsAdded and generatorsDeleted, and generatorsUpdated holds
\* exactly the files whose mtime is not below the watermark the first cycle
\* left: it is empty when every mtime is below that watermark.
C2_SecondCycleUpToTies ==
  \A s \in Slots :
    LET c == cyc[s] IN
    SecondQuietCycle(c) =>
      /\ c.wmSeen # Undefined
      /\ c.res[1].generatorsAdded = <<>>
      /\ c.res[1].generatorsDeleted = <<>>
      /\ NamesOf(c.res[1].generatorsUpdated) =
           {c.reads[i].name : i \in {j \in 1..Len(c.filenames) : c.stats[j] >= c.wmSeen}}
      /\ (\A i \in 1..Len(c.filenames) : c.stats[i] < c.wmSeen)
           => c.res[1].generatorsUpdated = <<>>

\* C2 witness: a second quiet cycle over two files, all older than the
\* watermark, that lists nothing.
C2_Witness ==
  \E s \in Slots :
    /\ SecondQuietCycle(cyc[s])
    /\ Len(cyc[s].filenames) = 2
    /\ \A i \in 1..2 : cyc[s].stats[i] < cyc[s].wmSeen
    /\ cyc[s].res[1].generatorsUpdated = <<>>

\* C3 as stated: the watermark a completed cycle leaves is that cycle's start
\* time t0.
C3_WatermarkIsStartTime ==
  \A s \in Slots : cyc[s].pc = "resolved" => lastHeartbeatTime = cyc[s].t0

\* C4 as stated: a modification of a generator file whose name is in the store
\* and whose mtime is below the watermark has been listed by a completed cycle.
C4_ModificationsAccounted ==
  \A f \in unreported :
    ~ /\ lastHeartbeatTime # Undefined
      /\ files[f].kind = "valid"
      /\ files[f].name \in DOMAIN config.generators
      /\ files[f].mtime < lastHeartbeatTime

\* C5 as stated: while the watermark is unset it counts as the epoch, so the
\* first cycle lists every generator found both in the scan and in the store
\* as updated.
C5_FirstCycleUpdatesAll ==
  \A s \in Slots :
    LET c == cyc[s] IN
    (c.pc = "resolved" /\ c.wmSeen = Undefined) =>
      Scanned(c) \cap DOMAIN c.storeSeen \subseteq NamesOf(c.res[1].generatorsUpdated)

\* C6 as stated: a cycle that passed config validation invokes the Response
\* Handler exactly once, with exactly one of (error, response) present,
\* whatever the scan and the handler call do.
C6_HandlerInvokedOnce ==
  \A s \in Slots :
    /\ Len(cyc[s].handled) <= 1
    /\ cyc[s].pc = "done" => Len(cyc[s].handled) = 1
    /\ \A k \in 1..Len(cyc[s].handled) :
         (cyc[s].handled[k].err = NoErr) # (cyc[s].handled[k].res = <<>>)

\* The files of a cycle that do not hold a valid generator, and the first of
\* them in listing order.
Malformed(c) == {i \in 1..Len(c.filenames) : c.reads[i].kind # "valid"}
FirstMalformed(c) == CHOOSE i \in Malformed(c) : \A j \in Malformed(c) : i <= j
ShapeKinds == {"null", "scalar", "array", "noname"}

\* C7: when the callback meets a file that parses to a non-object, an array or
\* a record without a name before any other malformed file, the cycle rejects
\* with a ValidationError naming that file, no response is produced or handed
\* on, and the watermark keeps its value.
C7_FailFast ==
  [][\A s \in Slots :
       /\ (JoinStep(s) /\ Malformed(cyc[s]) # {}
            /\ cyc[s].reads[FirstMalformed(cyc[s])].kind \in ShapeKinds) =>
            /\ cyc'[s].pc = "rejected"
            /\ cyc'[s].err = ValidationError("Invalid Generator in",
                                              cyc[s].filenames[FirstMalformed(cyc[s])])
            /\ cyc'[s].res = <<>>
            /\ lastHeartbeatTime' = lastHeartbeatTime
       /\ (cyc'[s].err.type = "ValidationError") =>
            /\ cyc'[s].res = <<>>
            /\ \A k \in 1..Len(cyc'[s].handled) : cyc'[s].handled[k].res = <<>>
    ]_vars

\* C7 witness: a cycle rejected over its second file, an array, after a valid
\* first file, with the watermark of the cycle before still in place.
C7_Witness ==
  \E s \in Slots :
    /\ cyc[s].pc = "rejected"
    /\ Len(cyc[s].filenames) = 2
    /\ cyc[s].reads[1].kind = "valid"
    /\ cyc[s].reads[2].kind = "array"
    /\ cyc[s].err = ValidationError("Invalid Generator in", cyc[s].filenames[2])
    /\ lastHeartbeatTime # Undefined

\* The scan of a cycle failed on a generator file.
GeneratorError(c) == c.err.type = "ValidationError" /\ c.err.file # 0

\* C8 as stated: a ValidationError over a malformed generator is thrown to
\* the caller of sendHeartbeat and never passed to the Response Handler.
C8_ThrownToCaller ==
  \A s \in Slots :
    /\ GeneratorError(cyc[s]) => thrown = cyc[s].err
    /\ \A k \in 1..Len(cyc[s].handled) : cyc[s].handled[k].err.type # "ValidationError"

\* C8 amended: a ValidationError over a malformed generator rejects the promise
\* of buildMockResponse; sendHeartbeat has returned without throwing, and the
\* error reaches the Response Handler as its error argument, with no response.
C8_RoutedToHandler ==
  \A s \in Slots :
    GeneratorError(cyc[s]) =>
      /\ thrown = NoErr
      /\ cyc[s].pc \in {"rejected", "done"}
      /\ cyc[s].pc = "rejected" => cyc[s].handled = <<>>
      /\ cyc[s].pc = "done" => cyc[s].handled = <<[err |-> cyc[s].err, res |-> <<>>]>>

\* C8 witness: the handler has been called with the ValidationError.
C8_Witness ==
  \E s \in Slots :
    /\ cyc[s].pc = "done"
    /\ GeneratorError(cyc[s])
    /\ Len(cyc[s].handled) = 1
    /\ cyc[s].handled[1].err = cyc[s].err

\* C9 as stated: a file whose text fails to parse does not abort the scan: no
\* cycle fails over such a file.
C9_ParseFailureSkipped ==
  \A s \in Slots :
    LET c == cyc[s] IN
    (c.pc = "rejected" /\ GeneratorError(c)) =>
      \A i \in 1..Len(c.filenames) :
        c.filenames[i] = c.err.file => c.reads[i].kind # "badjson"

\* C9 amended: when the callback meets a file whose text fails to parse before
\* any other malformed file, the failure is logged and the undefined result
\* then fails validation: the cycle rejects with a ValidationError naming that
\* file, the files after it are not classified, no response is produced and
\* the watermark keeps its value.
C9_ParseFailureAborts ==
  [][\A s \in Slots :
       (JoinStep(s) /\ Malformed(cyc[s]) # {}
        /\ cyc[s].reads[FirstMalformed(cyc[s])].kind = "badjson") =>
         /\ cyc'[s].pc = "rejected"
         /\ cyc'[s].logged = {cyc[s].filenames[FirstMalformed(cyc[s])]}
         /\ cyc'[s].err = ValidationError("Invalid Generator in",
                                           cyc[s].filenames[FirstMalformed(cyc[s])])
         /\ cyc'[s].res = <<>>
         /\ lastHeartbeatTime' = lastHeartbeatTime
    ]_vars

\* C9 witness: a cycle rejected over an unparseable first file, logged, with a
\* valid file after it.
C9_Witness ==
  \E s \in Slots :
    /\ cyc[s].pc = "rejected"
    /\ Len(cyc[s].filenames) = 2
    /\ cyc[s].reads[1].kind = "badjson"
    /\ cyc[s].reads[2].kind = "valid"
    /\ cyc[s].logged = {cyc[s].filenames[1]}
    /\ GeneratorError(cyc[s])

\* The messages that name a field missing from the config.
MissingFieldMessages ==
  (IF config.name = Null THEN {"No collectorName in config"} ELSE {})
  \cup (IF config.refocus.url = Null THEN {"No refocusUrl in config"} ELSE {})
  \cup (IF config.refocus.collectorToken = Null THEN {"No collectorToken in config"} ELSE {})

\* C10: with the collector name, refocus.url or refocus.collectorToken missing,
\* a call of sendHeartbeat throws a ValidationError naming a missing field and
\* does nothing else: no cycle starts, so the directory is not read and the
\* Response Handler is not invoked.
C10_ConfigValidatedFirst ==
  [][(calls' = calls + 1 /\ MissingFieldMessages # {}) =>
       /\ thrown'.type = "ValidationError"
       /\ thrown'.msg \in MissingFieldMessages
       /\ cyc' = cyc
       /\ \A s \in Slots : cyc'[s] = IdleCycle
       /\ UNCHANGED <<files, config, lastHeartbeatTime>>
    ]_vars

\* C10 witness: sendHeartbeat has thrown over a config that has its name and
\* its url and lacks the token.
C10_Witness ==
  /\ calls > 0
  /\ config.name # Null
  /\ config.refocus.url # Null
  /\ config.refocus.collectorToken = Null
  /\ thrown = ValidationError("No collectorToken in config", 0)

\* The positions of a list that hold a record of the given name.
Positions(list, n) == {i \in 1..Len(list) : list[i].name = n}

\* C11: a generator of the store whose file the scan did not find is listed
\* exactly once in generatorsDeleted, as the store's own record, and in neither
\* generatorsAdded nor generatorsUpdated.
C11_DeletedFromStore ==
  \A s \in Slots :
    LET c == cyc[s] IN
    c.pc = "resolved" =>
      \A n \in DOMAIN c.storeSeen \ Scanned(c) :
        /\ Cardinality(Positions(c.res[1].generatorsDeleted, n)) = 1
        /\ \A i \in Positions(c.res[1].generatorsDeleted, n) :
             c.res[1].generatorsDeleted[i] = c.storeSeen[n]
        /\ n \notin NamesOf(c.res[1].generatorsAdded)
        /\ n \notin NamesOf(c.res[1].generatorsUpdated)

\* C11 witness: a generator that an earlier cycle took into the store from
\* file 1 is listed as deleted, with that record, once its file is gone.
C11_Witness ==
  \E s \in Slots :
    /\ cyc[s].pc = "resolved"
    /\ Len(cyc[s].res[1].generatorsDeleted) = 1
    /\ cyc[s].res[1].generatorsDeleted[1].src = 1
    /\ cyc[s].res[1].generatorsDeleted[1] = cyc[s].storeSeen[GenOrder[1]]

\* The step in which a call of sendHeartbeat passes the config validation and
\* starts the cycle of slot s.
StartStep(s) == ~InFlight(s) /\ cyc'[s].pc = "readdir"

\* C12: a cycle that passes the config validation merges the current metadata
\* into the stored one, no later step of any cycle (failure included) touches
\* the stored metadata, and the next cycle, started with the same current
\* metadata, computes an empty delta whether or not this one failed.
C12_MetadataMergedBeforeScan ==
  [][\A s \in Slots :
       /\ StartStep(s) =>
            /\ DOMAIN config'.metadata = DOMAIN config.metadata \cup DOMAIN cyc'[s].current
            /\ \A k \in DOMAIN cyc'[s].current : config'.metadata[k] = cyc'[s].current[k]
            /\ \A k \in DOMAIN config.metadata \ DOMAIN cyc'[s].current :
                 config'.metadata[k] = config.metadata[k]
       /\ (StartStep(s) /\ cyc[s].pc = "done" /\ cyc'[s].current = cyc[s].current)
            => cyc'[s].changed = EmptyMap
       /\ (\A r \in Slots : ~(~InFlight(r) /\ cyc'[r].pc = "readdir"))
            => config'.metadata = config.metadata]_vars

\* C12 witness: the second call starts a cycle although no cycle has set the
\* watermark (the first one failed), and its delta is empty for a current
\* metadata that is not.
C12_Witness ==
  \E s \in Slots :
    /\ calls = 2
    /\ cyc[s].pc = "readdir"
    /\ lastHeartbeatTime = Undefined
    /\ cyc[s].current # EmptyMap
    /\ cyc[s].changed = EmptyMap

\* The step in which handleHeartbeatResponse(null, res) runs for slot s.
HandlerStep(s) == cyc[s].pc = "resolved" /\ cyc'[s].pc # "resolved"

\* C13: no step of sendHeartbeat or buildMockResponse, successful or failing,
\* changes the store, the name, the url or the token of the config; the store
\* changes only when the response handler runs on a response, and a step that
\* starts a cycle changes nothing of the config but its metadata.
C13_ConfigFrame ==
  [][/\ config'.name = config.name
     /\ config'.refocus = config.refocus
     /\ config'.generators # config.generators => \E s \in Slots : HandlerStep(s)]_vars

\* C13 witness: a cycle has classified a new generator and resolved, and the
\* store is still the one it classified against.
C13_Witness ==
  \E s \in Slots :
    /\ cyc[s].pc = "resolved"
    /\ cyc[s].res[1].generatorsAdded # <<>>
    /\ config.generators = cyc[s].storeSeen

\* C14: classification starts only when every stat and every read of the cycle
\* has completed; whatever the order of completion, the stat and the text held
\* for the i-th listed file name are those of that file; and the record the
\* cycle lists for the i-th file comes from that file's text and is listed
\* according to that file's mtime.
C14_OwnContentAndMtime ==
  [][\A s \in Slots :
       LET c == cyc[s] IN
       /\ (c.pc = "io" /\ cyc'[s].pc = "resolved") =>
            /\ AllDone(c)
            /\ \A i \in 1..Len(c.filenames) :
                 LET record == Generator(c.reads[i].name, c.filenames[i])
                     res == cyc'[s].res[1]
                 IN IF c.reads[i].name \notin DOMAIN config.generators
                    THEN record \in Range(res.generatorsAdded)
                    ELSE record \in Range(res.generatorsUpdated)
                           <=> MtimeReached(c.stats[i], lastHeartbeatTime)
       /\ \A i \in 1..Len(c.filenames) :
            /\ (c.pc = "io" /\ cyc'[s].pc = "io" /\ cyc'[s].stats[i] # c.stats[i])
                 => cyc'[s].stats[i] = files[c.filenames[i]].mtime
            /\ (c.pc = "io" /\ cyc'[s].pc = "io" /\ cyc'[s].reads[i] # c.reads[i])
                 => /\ cyc'[s].reads[i].src = c.filenames[i]
                    /\ cyc'[s].reads[i].name = files[c.filenames[i]].name]_vars

\* C14 witness: a cycle over two files with different mtimes has resolved with
\* the second file's generator listed as updated and the first one's not.
C14_Witness ==
  \E s \in Slots :
    /\ cyc[s].pc = "resolved"
    /\ Len(cyc[s].filenames) = 2
    /\ cyc[s].stats[1] < cyc[s].stats[2]
    /\ cyc[s].res[1].generatorsUpdated = <<Generator(cyc[s].reads[2].name, 2)>>
    /\ cyc[s].reads[1].name \in DOMAIN cyc[s].storeSeen

C19_FailedValidationFrame ==
  [][(calls' = calls + 1 /\ thrown'.type = "ValidationError") =>
        /\ config'.metadata = config.metadata
        /\ config'.generators = config.generators
        /\ lastHeartbeatTime' = lastHeartbeatTime]_vars

\* C19 witness: a call has failed the validation after an earlier cycle had
\* merged metadata and set the watermark.
C19_Witness ==
  /\ thrown.type = "ValidationError"
  /\ calls = 2
  /\ lastHeartbeatTime # Undefined
  /\ config.metadata # EmptyMap

\* The last position of the listing whose file names the generator n.
LastFileOf(c, n) ==
  CHOOSE i \in 1..Len(c.filenames) :
    /\ c.reads[i].name = n
    /\ \A j \in 1..Len(c.filenames) : c.reads[j].name = n => j <= i

\* C15 as stated: of the files that carry one generator name the last in
\* listing order wins, so a cycle's generatorsAdded and generatorsUpdated hold
\* at most one record of that name, the one from the later file.
C15_LastFileWins ==
  \A s \in Slots :
    LET c == cyc[s] IN
    c.pc = "resolved" =>
      LET listed == c.res[1].generatorsAdded \o c.res[1].generatorsUpdated
      IN \A n \in Scanned(c) :
           /\ Cardinality(Positions(listed, n)) <= 1
           /\ \A i \in Positions(listed, n) :
                listed[i] = Generator(n, c.filenames[LastFileOf(c, n)])

\* const body = {logLines: [], timestamp, refocus: changed}
Body(c) == [logLines |-> <<>>, timestamp |-> c.t0, refocus |-> c.changed]

\* C16 as stated: the record a successful cycle hands to the response handler
\* carries the empty logLines, the cycle's timestamp t0 and the cycle's
\* metadata delta as refocus, next to the three classification lists.
C16_HandedRecord ==
  \A s \in Slots :
    LET c == cyc[s] IN
    \A k \in 1..Len(c.handled) :
      c.handled[k].res # <<>> =>
        LET handed == c.handled[k].res[1]
        IN /\ {"generatorsAdded", "generatorsDeleted", "generatorsUpdated"}
                \subseteq DOMAIN handed
           /\ \A field \in DOMAIN Body(c) :
                field \in DOMAIN handed /\ handed[field] = Body(c)[field]

\* The errors of readdirAsync, statAsync and readFileAsync.
IoFailure(err) == err.type = "Error" /\ err.msg \in {"readdir", "stat", "readFile"}

\* C18: when every readdir, stat and read settles, a cycle that passed the
\* config validation ends with a call of the response handler; the step in
\* which a readdir, stat or read fails leaves the watermark as it was, and the
\* cycle then ends with the handler called on that error and on no response.
C18_CycleCompletes ==
  /\ \A s \in Slots :
       cyc[s].pc = "readdir" ~> (cyc[s].pc = "done" /\ cyc[s].handled # <<>>)
  /\ \A s \in Slots :
       (cyc[s].pc = "rejected" /\ IoFailure(cyc[s].err))
         ~> (/\ cyc[s].pc = "done"
             /\ IoFailure(cyc[s].err)
             /\ cyc[s].handled = <<[err |-> cyc[s].err, res |-> <<>>]>>)
  /\ [][\A s \in Slots :
          (Scanning(s) /\ cyc'[s].pc = "rejected" /\ IoFailure(cyc'[s].err))
            => lastHeartbeatTime' = lastHeartbeatTime]_vars

\* C18 witness: a cycle whose stat of a file failed has ended with the handler
\* called once, on that error.
C18_Witness ==
  \E s \in Slots :
    /\ cyc[s].pc = "done"
    /\ cyc[s].err.type = "Error"
    /\ cyc[s].err.msg = "stat"
    /\ cyc[s].handled = <<[err |-> cyc[s].err, res |-> <<>>]>>

\* C20: whether or not cycles overlap, the generatorsAdded and
\* generatorsUpdated of a cycle hold only records of the files that cycle
\* scanned, at most one per file, and its generatorsDeleted only records of the
\* store it classified against, at most one per name: nothing another cycle
\* has collected is in them.
C20_OwnLists ==
  \A s \in Slots :
    LET c == cyc[s] IN
    c.pc = "resolved" =>
      LET res == c.res[1]
          scanned == {Generator(c.reads[i].name, c.filenames[i]) :
                        i \in 1..Len(c.filenames)}
      IN /\ Range(res.generatorsAdded) \cup Range(res.generatorsUpdated) \subseteq scanned
         /\ Len(res.generatorsAdded) + Len(res.generatorsUpdated) <= Len(c.filenames)
         /\ Range(res.generatorsDeleted) \subseteq {c.storeSeen[n] : n \in DOMAIN c.storeSeen}
         /\ Len(res.generatorsDeleted) <= Cardinality(DOMAIN c.storeSeen)

\* C20 witness: two cycles in flight at once have both resolved, each with
\* generators added and one with a generator deleted, and their lists differ.
C20_Witness ==
  /\ \A s \in Slots : cyc[s].pc = "resolved" /\ cyc[s].res[1].generatorsAdded # <<>>
  /\ cyc[1].res[1].generatorsAdded # cyc[2].res[1].generatorsAdded
  /\ \E s \in Slots : cyc[s].res[1].generatorsDeleted # <<>>

====
